---- MODULE Spec2Model ----
(***************************************************************************)
(* CMakeToolchain (src/lib.rs): the toolchain resolved for a target        *)
(* triple.  The state is the process environment the resolver reads (the   *)
(* rustc host, the environment variables with PATH among them, the files   *)
(* that exist, the programs that can be spawned, the MSVC registry), the   *)
(* seven fields of the struct, and the compiler-detection requests that    *)
(* new() issued.  Strings are TLA+ strings and the string operations of    *)
(* the code (contains, replace, trim_end_matches, format!, split_paths,    *)
(* join) are computed character by character.                              *)
(***************************************************************************)
EXTENDS Integers, Sequences, FiniteSets, TLC

VARIABLES
    rustc_host,   \* rustc_version::version_meta().host
    env,          \* the process environment: variable name -> value
    fs,           \* the paths for which Path::exists() is true
    invocable,    \* the programs for which Command::new(p).output() is Ok
    registry,     \* the tools cc::windows_registry::find can locate
    pc,           \* "start" before new(), "built" once a CMakeToolchain exists
    host, target, sysroot, cc, cxx, ar, ranlib,   \* the fields of CMakeToolchain
    requests,     \* the cc::Build configurations get_compiler() was called on
    call          \* the last direct call of a private helper and what it returned

vars == <<rustc_host, env, fs, invocable, registry, pc,
          host, target, sysroot, cc, cxx, ar, ranlib, requests, call>>

inputs == <<rustc_host, env, fs, invocable, registry>>

fields == <<host, target, sysroot, cc, cxx, ar, ranlib>>

(***************************************************************************)
(* Bounds of the model.                                                    *)
(***************************************************************************)
\* how many of the AR-cascade variables and CROSS_COMPILE are set at once
MaxEnvVars == 2

\* how many directories PATH lists
MaxPathDirs == 2

(***************************************************************************)
(* Option<T>: None is the empty sequence, Some(x) the one-element one.     *)
(***************************************************************************)
None == <<>>

Some(x) == <<x>>

unwrap(o) == o[1]

\* Option::or_else / Option::or
or_else(a, b) == IF a # None THEN a ELSE b

(***************************************************************************)
(* The string operations the code uses.                                    *)
(***************************************************************************)
\* str::contains(pat)
contains(s, pat) ==
    \E i \in 1..(Len(s) - Len(pat) + 1) : SubSeq(s, i, i + Len(pat) - 1) = pat

\* str::replace(from, to): every non-overlapping match, left to right
RECURSIVE replace(_, _, _)
replace(s, from, to) ==
    IF Len(s) < Len(from) THEN s
    ELSE IF SubSeq(s, 1, Len(from)) = from
         THEN to \o replace(SubSeq(s, Len(from) + 1, Len(s)), from, to)
         ELSE SubSeq(s, 1, 1) \o replace(SubSeq(s, 2, Len(s)), from, to)

\* str::trim_end_matches(c) for a one-character pattern
RECURSIVE trim_end_matches(_, _)
trim_end_matches(s, c) ==
    IF Len(s) > 0 /\ SubSeq(s, Len(s), Len(s)) = c
    THEN trim_end_matches(SubSeq(s, 1, Len(s) - 1), c)
    ELSE s

(***************************************************************************)
(* The platform the library runs on (the rustc host): executable suffix,   *)
(* PATH separator and path separator of std.                               *)
(***************************************************************************)
is_windows == contains(rustc_host, "windows")

\* std::env::consts::EXE_SUFFIX
EXE_SUFFIX == IF is_windows THEN ".exe" ELSE ""

PATH_SEPARATOR == IF is_windows THEN ";" ELSE ":"

MAIN_SEPARATOR == IF is_windows THEN "\\" ELSE "/"

\* the pieces of s between the occurrences of the one-character separator sep
RECURSIVE split(_, _)
split(s, sep) ==
    IF \E i \in 1..Len(s) : SubSeq(s, i, i) = sep
    THEN LET i == CHOOSE k \in 1..Len(s) :
                      /\ SubSeq(s, k, k) = sep
                      /\ \A j \in 1..(k - 1) : SubSeq(s, j, j) # sep
         IN  <<SubSeq(s, 1, i - 1)>> \o split(SubSeq(s, i + 1, Len(s)), sep)
    ELSE <<s>>

\* std::env::split_paths: the entries of a PATH value, empty ones kept
split_paths(s) == split(s, PATH_SEPARATOR)

\* Path::join of a directory and a relative file name
join(dir, file) ==
    LET sep == MAIN_SEPARATOR
    IN  IF dir = "" THEN file
        ELSE IF SubSeq(dir, Len(dir), Len(dir)) = sep THEN dir \o file
        ELSE dir \o sep \o file

\* Path::exists
exists(p) == p \in fs

(***************************************************************************)
(* The private helpers of CMakeToolchain.                                  *)
(***************************************************************************)
\* std::env::var(v).ok(), and std::env::var_os(v)
getenv(v) == IF v \in DOMAIN env THEN Some(env[v]) ELSE None

\* get_var with HOST and TARGET exchanged
get_var_kind_swapped(self_host, self_target, var_base) ==
    LET kind     == IF self_host = self_target THEN "TARGET" ELSE "HOST"
        target_u == replace(self_target, "-", "_")
    IN  or_else(getenv(var_base \o "_" \o self_target),
        or_else(getenv(var_base \o "_" \o target_u),
        or_else(getenv(kind \o "_" \o var_base),
                getenv(var_base))))

get_var(self_host, self_target, var_base) ==
    LET kind     == IF self_host = self_target THEN "HOST" ELSE "TARGET"
        target_u == replace(self_target, "-", "_")
    IN  or_else(getenv(var_base \o "_" \o self_target),
        or_else(getenv(var_base \o "_" \o target_u),
        or_else(getenv(kind \o "_" \o var_base),
                getenv(var_base))))

\* prefixes.first()
first(prefixes) == IF Len(prefixes) = 0 THEN None ELSE Some(prefixes[1])

\* the closure given to find_map: the first prefix whose gcc is in path_entry
RECURSIVE prefix_in_entry(_, _)
prefix_in_entry(path_entry, prefixes) ==
    IF Len(prefixes) = 0 THEN None
    ELSE LET target_compiler == prefixes[1] \o "-gcc" \o EXE_SUFFIX
         IN  IF exists(join(path_entry, target_compiler))
             THEN Some(prefixes[1])
             ELSE prefix_in_entry(path_entry, Tail(prefixes))

\* Iterator::find_map over the PATH entries
RECURSIVE find_map(_, _)
find_map(path_entries, prefixes) ==
    IF Len(path_entries) = 0 THEN None
    ELSE or_else(prefix_in_entry(path_entries[1], prefixes),
                 find_map(Tail(path_entries), prefixes))

\* the search with the loops exchanged: each prefix is tried in every PATH
\* entry before the next prefix is tried
RECURSIVE find_by_prefix(_, _)
find_by_prefix(path_entries, prefixes) ==
    IF Len(prefixes) = 0 THEN None
    ELSE IF \E i \in DOMAIN path_entries :
               exists(join(path_entries[i], prefixes[1] \o "-gcc" \o EXE_SUFFIX))
         THEN Some(prefixes[1])
         ELSE find_by_prefix(path_entries, Tail(prefixes))

find_working_gnu_prefix_by_prefix(prefixes) ==
    LET path  == getenv("PATH")
        found == IF path = None THEN None
                 ELSE find_by_prefix(split_paths(unwrap(path)), prefixes)
    IN  or_else(found, first(prefixes))

find_working_gnu_prefix(prefixes) ==
    LET path  == getenv("PATH")
        found == IF path = None THEN None
                 ELSE find_map(split_paths(unwrap(path)), prefixes)
    IN  or_else(found, first(prefixes))

\* the match of prefix_for_target on the target triple
prefix_table(tgt) ==
    CASE tgt = "aarch64-pc-windows-gnu" -> Some("aarch64-w64-mingw32")
      [] tgt = "aarch64-uwp-windows-gnu" -> Some("aarch64-w64-mingw32")
      [] tgt = "aarch64-unknown-linux-gnu" -> Some("aarch64-linux-gnu")
      [] tgt = "aarch64-unknown-linux-musl" -> Some("aarch64-linux-musl")
      [] tgt = "aarch64-unknown-netbsd" -> Some("aarch64--netbsd")
      [] tgt = "arm-unknown-linux-gnueabi" -> Some("arm-linux-gnueabi")
      [] tgt = "armv4t-unknown-linux-gnueabi" -> Some("arm-linux-gnueabi")
      [] tgt = "armv5te-unknown-linux-gnueabi" -> Some("arm-linux-gnueabi")
      [] tgt = "armv5te-unknown-linux-musleabi" -> Some("arm-linux-gnueabi")
      [] tgt = "arm-frc-linux-gnueabi" -> Some("arm-frc-linux-gnueabi")
      [] tgt = "arm-unknown-linux-gnueabihf" -> Some("arm-linux-gnueabihf")
      [] tgt = "arm-unknown-linux-musleabi" -> Some("arm-linux-musleabi")
      [] tgt = "arm-unknown-linux-musleabihf" -> Some("arm-linux-musleabihf")
      [] tgt = "arm-unknown-netbsd-eabi" -> Some("arm--netbsdelf-eabi")
      [] tgt = "armv6-unknown-netbsd-eabihf" -> Some("armv6--netbsdelf-eabihf")
      [] tgt = "armv7-unknown-linux-gnueabi" -> Some("arm-linux-gnueabi")
      [] tgt = "armv7-unknown-linux-gnueabihf" -> Some("arm-linux-gnueabihf")
      [] tgt = "armv7-unknown-linux-musleabihf" -> Some("arm-linux-musleabihf")
      [] tgt = "armv7neon-unknown-linux-gnueabihf" -> Some("arm-linux-gnueabihf")
      [] tgt = "armv7neon-unknown-linux-musleabihf" -> Some("arm-linux-musleabihf")
      [] tgt = "thumbv7-unknown-linux-gnueabihf" -> Some("arm-linux-gnueabihf")
      [] tgt = "thumbv7-unknown-linux-musleabihf" -> Some("arm-linux-musleabihf")
      [] tgt = "thumbv7neon-unknown-linux-gnueabihf" -> Some("arm-linux-gnueabihf")
      [] tgt = "thumbv7neon-unknown-linux-musleabihf" -> Some("arm-linux-musleabihf")
      [] tgt = "armv7-unknown-netbsd-eabihf" -> Some("armv7--netbsdelf-eabihf")
      [] tgt = "hexagon-unknown-linux-musl" -> Some("hexagon-linux-musl")
      [] tgt = "i586-unknown-linux-musl" -> Some("musl")
      [] tgt = "i686-pc-windows-gnu" -> Some("i686-w64-mingw32")
      [] tgt = "i686-uwp-windows-gnu" -> Some("i686-w64-mingw32")
      [] tgt = "i686-unknown-linux-gnu" -> find_working_gnu_prefix(<<"i686-linux-gnu", "x86_64-linux-gnu">>)
      [] tgt = "i686-unknown-linux-musl" -> Some("musl")
      [] tgt = "i686-unknown-netbsd" -> Some("i486--netbsdelf")
      [] tgt = "mips-unknown-linux-gnu" -> Some("mips-linux-gnu")
      [] tgt = "mips-unknown-linux-musl" -> Some("mips-linux-musl")
      [] tgt = "mipsel-unknown-linux-gnu" -> Some("mipsel-linux-gnu")
      [] tgt = "mipsel-unknown-linux-musl" -> Some("mipsel-linux-musl")
      [] tgt = "mips64-unknown-linux-gnuabi64" -> Some("mips64-linux-gnuabi64")
      [] tgt = "mips64el-unknown-linux-gnuabi64" -> Some("mips64el-linux-gnuabi64")
      [] tgt = "mipsisa32r6-unknown-linux-gnu" -> Some("mipsisa32r6-linux-gnu")
      [] tgt = "mipsisa32r6el-unknown-linux-gnu" -> Some("mipsisa32r6el-linux-gnu")
      [] tgt = "mipsisa64r6-unknown-linux-gnuabi64" -> Some("mipsisa64r6-linux-gnuabi64")
      [] tgt = "mipsisa64r6el-unknown-linux-gnuabi64" -> Some("mipsisa64r6el-linux-gnuabi64")
      [] tgt = "powerpc-unknown-linux-gnu" -> Some("powerpc-linux-gnu")
      [] tgt = "powerpc-unknown-linux-gnuspe" -> Some("powerpc-linux-gnuspe")
      [] tgt = "powerpc-unknown-netbsd" -> Some("powerpc--netbsd")
      [] tgt = "powerpc64-unknown-linux-gnu" -> Some("powerpc-linux-gnu")
      [] tgt = "powerpc64le-unknown-linux-gnu" -> Some("powerpc64le-linux-gnu")
      [] tgt = "riscv32i-unknown-none-elf" -> find_working_gnu_prefix(<<"riscv32-unknown-elf", "riscv64-unknown-elf", "riscv-none-embed">>)
      [] tgt = "riscv32imac-unknown-none-elf" -> find_working_gnu_prefix(<<"riscv32-unknown-elf", "riscv64-unknown-elf", "riscv-none-embed">>)
      [] tgt = "riscv32imc-unknown-none-elf" -> find_working_gnu_prefix(<<"riscv32-unknown-elf", "riscv64-unknown-elf", "riscv-none-embed">>)
      [] tgt = "riscv64gc-unknown-none-elf" -> find_working_gnu_prefix(<<"riscv64-unknown-elf", "riscv32-unknown-elf", "riscv-none-embed">>)
      [] tgt = "riscv64imac-unknown-none-elf" -> find_working_gnu_prefix(<<"riscv64-unknown-elf", "riscv32-unknown-elf", "riscv-none-embed">>)
      [] tgt = "riscv64gc-unknown-linux-gnu" -> Some("riscv64-linux-gnu")
      [] tgt = "riscv32gc-unknown-linux-gnu" -> Some("riscv32-linux-gnu")
      [] tgt = "riscv64gc-unknown-linux-musl" -> Some("riscv64-linux-musl")
      [] tgt = "riscv32gc-unknown-linux-musl" -> Some("riscv32-linux-musl")
      [] tgt = "s390x-unknown-linux-gnu" -> Some("s390x-linux-gnu")
      [] tgt = "sparc-unknown-linux-gnu" -> Some("sparc-linux-gnu")
      [] tgt = "sparc64-unknown-linux-gnu" -> Some("sparc64-linux-gnu")
      [] tgt = "sparc64-unknown-netbsd" -> Some("sparc64--netbsd")
      [] tgt = "sparcv9-sun-solaris" -> Some("sparcv9-sun-solaris")
      [] tgt = "armv7a-none-eabi" -> Some("arm-none-eabi")
      [] tgt = "armv7a-none-eabihf" -> Some("arm-none-eabi")
      [] tgt = "armebv7r-none-eabi" -> Some("arm-none-eabi")
      [] tgt = "armebv7r-none-eabihf" -> Some("arm-none-eabi")
      [] tgt = "armv7r-none-eabi" -> Some("arm-none-eabi")
      [] tgt = "armv7r-none-eabihf" -> Some("arm-none-eabi")
      [] tgt = "thumbv6m-none-eabi" -> Some("arm-none-eabi")
      [] tgt = "thumbv7em-none-eabi" -> Some("arm-none-eabi")
      [] tgt = "thumbv7em-none-eabihf" -> Some("arm-none-eabi")
      [] tgt = "thumbv7m-none-eabi" -> Some("arm-none-eabi")
      [] tgt = "thumbv8m.base-none-eabi" -> Some("arm-none-eabi")
      [] tgt = "thumbv8m.main-none-eabi" -> Some("arm-none-eabi")
      [] tgt = "thumbv8m.main-none-eabihf" -> Some("arm-none-eabi")
      [] tgt = "x86_64-pc-windows-gnu" -> Some("x86_64-w64-mingw32")
      [] tgt = "x86_64-uwp-windows-gnu" -> Some("x86_64-w64-mingw32")
      [] tgt = "x86_64-rumprun-netbsd" -> Some("x86_64-rumprun-netbsd")
      [] tgt = "x86_64-unknown-linux-gnu" -> find_working_gnu_prefix(<<"x86_64-linux-gnu">>)
      [] tgt = "x86_64-unknown-linux-musl" -> Some("musl")
      [] tgt = "x86_64-unknown-netbsd" -> Some("x86_64--netbsd")
      [] OTHER -> None

\* prefix_for_target with the table consulted before CROSS_COMPILE
prefix_for_target_table_first(tgt) ==
    LET cc_env        == getenv("CROSS_COMPILE")
        cross_compile == IF cc_env = None THEN None
                         ELSE Some(trim_end_matches(unwrap(cc_env), "-"))
    IN  or_else(prefix_table(tgt), cross_compile)

prefix_for_target(tgt) ==
    LET cc_env        == getenv("CROSS_COMPILE")
        cross_compile == IF cc_env = None THEN None
                         ELSE Some(trim_end_matches(unwrap(cc_env), "-"))
    IN  or_else(cross_compile, prefix_table(tgt))

\* Command::new(program).output().is_ok()
output_is_ok(program) == program \in invocable

\* cc::windows_registry::find(target, tool)
windows_registry_find(self_target, tool) ==
    IF tool \in registry THEN Some(tool) ELSE None

\* what find_ar computes once the AR cascade has given nothing
find_ar_rules(self_host, self_target, default_ar) ==
    IF contains(self_target, "android")
    THEN replace(self_target, "armv7", "arm") \o "-ar"
    ELSE IF contains(self_target, "emscripten") THEN "emar"
    ELSE IF contains(self_target, "msvc") THEN "lib.exe"
    ELSE IF contains(self_target, "illumos") THEN "gar"
    ELSE IF self_host # self_target
         THEN LET q == prefix_for_target(self_target)
              IN  IF q # None /\ output_is_ok(unwrap(q) \o "-ar")
                  THEN unwrap(q) \o "-ar"
                  ELSE default_ar
    ELSE default_ar

\* find_ar with the android rule tried before the AR cascade
find_ar_android_first(self_host, self_target) ==
    LET p == get_var(self_host, self_target, "AR")
    IN  IF contains(self_target, "android")
        THEN replace(self_target, "armv7", "arm") \o "-ar"
        ELSE IF p # None THEN unwrap(p)
        ELSE find_ar_rules(self_host, self_target, "ar")

\* find_ar with the msvc rule tried before the emscripten rule
find_ar_msvc_first(self_host, self_target) ==
    LET p == get_var(self_host, self_target, "AR")
    IN  IF p # None THEN unwrap(p)
        ELSE IF contains(self_target, "android")
             THEN replace(self_target, "armv7", "arm") \o "-ar"
        ELSE IF contains(self_target, "msvc") THEN "lib.exe"
        ELSE find_ar_rules(self_host, self_target, "ar")

\* find_ar with the android target used as it is, armv7 not renamed
find_ar_keep_armv7(self_host, self_target) ==
    LET p == get_var(self_host, self_target, "AR")
    IN  IF p # None THEN unwrap(p)
        ELSE IF contains(self_target, "android") THEN self_target \o "-ar"
        ELSE find_ar_rules(self_host, self_target, "ar")

\* find_ar with the prefix looked up for native builds too
find_ar_native_prefix(self_host, self_target) ==
    LET p == get_var(self_host, self_target, "AR")
    IN  IF p # None THEN unwrap(p)
        ELSE find_ar_rules("", self_target, "ar")

\* find_ar with an empty default in place of "ar"
find_ar_empty_default(self_host, self_target) ==
    LET p == get_var(self_host, self_target, "AR")
    IN  IF p # None THEN unwrap(p)
        ELSE find_ar_rules(self_host, self_target, "")

find_ar(self_host, self_target) ==
    LET p          == get_var(self_host, self_target, "AR")
        default_ar == "ar"
    IN  IF p # None THEN unwrap(p)
        ELSE IF contains(self_target, "android")
             THEN replace(self_target, "armv7", "arm") \o "-ar"
        ELSE IF contains(self_target, "emscripten") THEN "emar"
        ELSE IF contains(self_target, "msvc")
             THEN IF windows_registry_find(self_target, "lib.exe") # None
                  THEN "lib.exe"
                  ELSE "lib.exe"
        ELSE IF contains(self_target, "illumos") THEN "gar"
        ELSE IF self_host # self_target
             THEN LET q == prefix_for_target(self_target)
                  IN  IF q # None
                      THEN LET target_ar == unwrap(q) \o "-ar"
                           IN  IF output_is_ok(target_ar) THEN target_ar
                               ELSE default_ar
                      ELSE default_ar
        ELSE default_ar

(***************************************************************************)
(* The compiler-detection collaborator (cc::Build).  It is a black box to  *)
(* this crate: the path it answers is a name made of what the request      *)
(* asked for, so that two requests get one answer only when they agree on  *)
(* host, target and language.                                              *)
(***************************************************************************)
\* cc::Build::new() configured by .host .target .opt_level .cargo_metadata
\* .cpp .debug .warnings
Build(h, t, cpp) ==
    [host |-> h, target |-> t, opt_level |-> 0, cargo_metadata |-> FALSE,
     cpp |-> cpp, debug |-> FALSE, warnings |-> FALSE]

\* cc::Build::get_compiler().path()
get_compiler(cfg) ==
    "/" \o cfg.host \o "/bin/" \o cfg.target \o (IF cfg.cpp THEN "-c++" ELSE "-cc")

(***************************************************************************)
(* The inputs the model draws: hosts, targets, environments, files.        *)
(***************************************************************************)
Hosts == {"x86_64-unknown-linux-gnu", "x86_64-pc-windows-msvc"}

Targets ==
    { "x86_64-unknown-linux-gnu",      \* a host; one candidate prefix
      "x86_64-pc-windows-msvc",        \* a host; msvc
      "armv7-linux-androideabi",       \* android, with armv7
      "aarch64-linux-android",         \* android, without armv7
      "wasm32-unknown-emscripten",
      "x86_64-unknown-illumos",
      "x86_64-illumos-msvc-emscripten",\* matches three special cases at once
      "arm-unknown-linux-gnueabi",     \* one prefix in the table
      "armv7-unknown-linux-gnueabihf", \* armv7 but not android
      "i686-unknown-linux-gnu",        \* two candidate prefixes
      "riscv64gc-unknown-none-elf",    \* three candidate prefixes
      "x86_64-apple-darwin" }          \* absent from the table

ArVarNames ==
    { "AR_x86_64-unknown-linux-gnu", "AR_x86_64_unknown_linux_gnu",
      "AR_armv7-linux-androideabi", "AR_armv7_linux_androideabi",
      "HOST_AR", "TARGET_AR", "AR" }

ToolVarNames == ArVarNames \cup {"CROSS_COMPILE"}

\* the values a variable may hold; a variable can be set and empty
ValuesOf(name) ==
    IF name = "CROSS_COMPILE" THEN {"arm-linux-gnueabi-", "musl", "--"}
    ELSE {"", "/custom/" \o name}

NoEnv == [n \in {} |-> ""]

\* every environment that sets exactly the variables of D
RECURSIVE EnvsOn(_)
EnvsOn(D) ==
    IF D = {} THEN {NoEnv}
    ELSE LET n == CHOOSE x \in D : TRUE
         IN  {(n :> v) @@ e : v \in ValuesOf(n), e \in EnvsOn(D \ {n})}

ToolEnvs(names, max) ==
    UNION {EnvsOn(D) : D \in {S \in SUBSET names : Cardinality(S) <= max}}

\* the directories PATH may list, and the order the fixed PATH lists them in
DirList ==
    IF is_windows THEN <<"C:\\cross\\bin", "C:\\mingw64\\bin">>
    ELSE <<"/opt/cross/bin", "/usr/bin">>

Dirs == {DirList[i] : i \in DOMAIN DirList}

\* std::env::join_paths, the inverse of split_paths
RECURSIVE join_paths(_)
join_paths(dirs) ==
    IF Len(dirs) = 0 THEN ""
    ELSE IF Len(dirs) = 1 THEN dirs[1]
    ELSE dirs[1] \o PATH_SEPARATOR \o join_paths(Tail(dirs))

\* PATH unset, or listing up to max directories
PathEnvs(max) ==
    {NoEnv} \cup
    {("PATH" :> join_paths(d)) : d \in UNION {[1..k -> Dirs] : k \in 0..max}}

\* the compilers a directory may hold; the last one has the other platform's suffix
GccNames ==
    { "i686-linux-gnu-gcc" \o EXE_SUFFIX, "x86_64-linux-gnu-gcc" \o EXE_SUFFIX,
      "i686-linux-gnu-gcc" \o (IF is_windows THEN "" ELSE ".exe") }

GccFiles == {join(d, f) : d \in Dirs, f \in GccNames}

Programs == {"arm-linux-gnueabi-ar", "x86_64-linux-gnu-ar"}

PrefixLists ==
    { <<"i686-linux-gnu", "x86_64-linux-gnu">>,
      <<"x86_64-linux-gnu", "i686-linux-gnu">>,
      <<"x86_64-linux-gnu">>,
      <<"riscv64-unknown-elf", "riscv32-unknown-elf", "riscv-none-embed">> }

\* the values the setters are called with
Paths == {"", "/opt/llvm/bin/tool"}

(***************************************************************************)
(* Initial states: no CMakeToolchain exists yet, and the environment is    *)
(* one of those drawn.                                                     *)
(***************************************************************************)
NoToolchain ==
    /\ pc = "start"
    /\ host = "" /\ target = "" /\ sysroot = None
    /\ cc = "" /\ cxx = "" /\ ar = "" /\ ranlib = ""
    /\ requests = <<>>
    /\ call = <<"none", "", None>>

\* the environments new() is checked in: many variables; PATH unset or listing
\* both directories, each holding the second candidate's gcc only
InitNew ==
    /\ rustc_host \in Hosts
    /\ \E a \in ToolEnvs(ToolVarNames, MaxEnvVars) :
       \E d \in {NoEnv, "PATH" :> join_paths(DirList)} : env = a @@ d
    /\ fs = {f \in GccFiles : contains(f, "x86_64")}
    /\ invocable \in SUBSET Programs
    /\ registry \in SUBSET {"lib.exe"}
    /\ NoToolchain

(***************************************************************************)
(* new(target).  version_meta().unwrap() panics when rustc cannot be run;  *)
(* the model starts where the host is known.  cxx_cfg is configured for    *)
(* C++ and then left unused: the second request is made on c_cfg again.    *)
(***************************************************************************)
New(t) ==
    /\ pc = "start"
    /\ LET c_cfg        == Build(rustc_host, t, FALSE)
           c_compiler   == get_compiler(c_cfg)
           cxx_cfg      == [c_cfg EXCEPT !.cpp = TRUE]
           cxx_compiler == get_compiler(c_cfg)
       IN  /\ requests' = <<c_cfg, c_cfg>>
           /\ host' = rustc_host
           /\ target' = t
           /\ sysroot' = None
           /\ cc' = c_compiler
           /\ cxx' = cxx_compiler
           /\ ranlib' = "ranlib"
           /\ ar' = find_ar(rustc_host, t)
    /\ pc' = "built"
    /\ UNCHANGED <<inputs, call>>

NextNew == \E t \in Targets : New(t)

SpecNew == InitNew /\ [][NextNew]_vars

(***************************************************************************)
(* The setters.  Each returns &mut Self; the getters return the field.     *)
(***************************************************************************)
Sysroot(v) ==
    /\ pc = "built"
    /\ sysroot' = Some(v)
    /\ UNCHANGED <<inputs, pc, host, target, cc, cxx, ar, ranlib, requests, call>>

Cc(v) ==
    /\ pc = "built"
    /\ cc' = v
    /\ UNCHANGED <<inputs, pc, host, target, sysroot, cxx, ar, ranlib, requests, call>>

\* the cxx setter writing the C compiler as well
Cxx_writes_cc(v) ==
    /\ pc = "built"
    /\ cxx' = v
    /\ cc' = v
    /\ UNCHANGED <<inputs, pc, host, target, sysroot, ar, ranlib, requests, call>>

Cxx(v) ==
    /\ pc = "built"
    /\ cxx' = v
    /\ UNCHANGED <<inputs, pc, host, target, sysroot, cc, ar, ranlib, requests, call>>

Ar(v) ==
    /\ pc = "built"
    /\ ar' = v
    /\ UNCHANGED <<inputs, pc, host, target, sysroot, cc, cxx, ranlib, requests, call>>

Ranlib(v) ==
    /\ pc = "built"
    /\ ranlib' = v
    /\ UNCHANGED <<inputs, pc, host, target, sysroot, cc, cxx, ar, requests, call>>

get_sysroot == sysroot

get_cc == cc

get_cxx == cxx

get_ar == ar

get_ranlib == ranlib

\* the environments the setters are checked in: AR and CROSS_COMPILE, no PATH
Init ==
    /\ rustc_host \in Hosts
    /\ env \in ToolEnvs({"AR", "CROSS_COMPILE"}, MaxEnvVars)
    /\ fs = {}
    /\ invocable \in {{}, Programs}
    /\ registry = {}
    /\ NoToolchain

Next ==
    \/ \E t \in Targets : New(t)
    \/ \E v \in Paths : Sysroot(v)
    \/ \E v \in Paths : Cc(v)
    \/ \E v \in Paths : Cxx(v)
    \/ \E v \in Paths : Ar(v)
    \/ \E v \in Paths : Ranlib(v)

Spec == Init /\ [][Next]_vars

(***************************************************************************)
(* The prefix helpers applied directly, in environments that vary          *)
(* CROSS_COMPILE, PATH and the files that exist.  The helpers change       *)
(* nothing, so each behaviour applies one of them once to the environment  *)
(* it starts in.                                                           *)
(***************************************************************************)
InitPrefix ==
    /\ rustc_host \in Hosts
    /\ \E a \in ToolEnvs({"CROSS_COMPILE"}, MaxEnvVars) :
       \E d \in PathEnvs(MaxPathDirs) : env = a @@ d
    /\ fs \in SUBSET GccFiles
    /\ invocable = {}
    /\ registry = {}
    /\ NoToolchain

PrefixForTarget(t) ==
    /\ call[1] = "none"
    /\ call' = <<"prefix_for_target", t, prefix_for_target(t)>>
    /\ UNCHANGED <<inputs, pc, fields, requests>>

FindWorkingGnuPrefix(prefixes) ==
    /\ call[1] = "none"
    /\ call' = <<"find_working_gnu_prefix", prefixes, find_working_gnu_prefix(prefixes)>>
    /\ UNCHANGED <<inputs, pc, fields, requests>>

NextPrefix ==
    \/ \E t \in Targets : PrefixForTarget(t)
    \/ \E l \in PrefixLists : FindWorkingGnuPrefix(l)

SpecPrefix == InitPrefix /\ [][NextPrefix]_vars

(***************************************************************************)
(* What the claims speak of, written out without the code's helpers: the   *)
(* names of the AR cascade as literals, and the classes of the targets.    *)
(***************************************************************************)
\* "AR_<target>" and "AR_<target with '-' replaced by '_'>", for the targets
\* whose variables the drawn environments can set
ArTargetNames(t) ==
    CASE t = "x86_64-unknown-linux-gnu" ->
             <<"AR_x86_64-unknown-linux-gnu", "AR_x86_64_unknown_linux_gnu">>
      [] t = "armv7-linux-androideabi" ->
             <<"AR_armv7-linux-androideabi", "AR_armv7_linux_androideabi">>
      [] OTHER -> <<>>

\* the four names in priority order
ArCascade(h, t) ==
    ArTargetNames(t) \o <<IF h = t THEN "HOST_AR" ELSE "TARGET_AR", "AR">>

\* the value of the highest-priority cascade variable that is set, if any
ArOverride(h, t) ==
    LET names == ArCascade(h, t)
        set   == {i \in DOMAIN names : names[i] \in DOMAIN env}
    IN  IF set = {} THEN None
        ELSE Some(env[names[CHOOSE i \in set : \A j \in set : i <= j]])

AndroidTargets == {"armv7-linux-androideabi", "aarch64-linux-android"}

EmscriptenTargets == {"wasm32-unknown-emscripten", "x86_64-illumos-msvc-emscripten"}

MsvcTargets == {"x86_64-pc-windows-msvc", "x86_64-illumos-msvc-emscripten"}

IllumosTargets == {"x86_64-unknown-illumos", "x86_64-illumos-msvc-emscripten"}

SpecialTargets ==
    AndroidTargets \cup EmscriptenTargets \cup MsvcTargets \cup IllumosTargets

\* the targets of the model that the table of prefix_for_target does not list
UnlistedTargets == SpecialTargets \cup {"x86_64-apple-darwin"}

(***************************************************************************)
(* C1: when an AR-cascade variable is set, the archiver new() computes is  *)
(* the value of the winning variable, verbatim, whatever the target        *)
(* (android, emscripten, msvc, illumos), CROSS_COMPILE, PATH or the probe. *)
(***************************************************************************)
C1_OverrideVerbatim ==
    (pc = "built" /\ ArOverride(host, target) # None)
        => ar = unwrap(ArOverride(host, target))

\* AR_<target> set for an android target, with CROSS_COMPILE set as well
C1_Witness ==
    /\ pc = "built"
    /\ target = "armv7-linux-androideabi"
    /\ "AR_armv7-linux-androideabi" \in DOMAIN env
    /\ "CROSS_COMPILE" \in DOMAIN env
    /\ ar = "/custom/AR_armv7-linux-androideabi"

(***************************************************************************)
(* C2: get_var("AR") is the value of the first variable that is set among  *)
(* AR_<target>, AR_<target with underscores>, HOST_AR or TARGET_AR (HOST   *)
(* when host = target), AR, in that order; None when none is set.  A       *)
(* variable set to the empty string counts as set.                         *)
(***************************************************************************)
C2_CascadeOrder ==
    pc = "built" => get_var(host, target, "AR") = ArOverride(host, target)

\* the underscore variant is set and empty, and shadows a non-empty AR
C2_Witness ==
    /\ pc = "built"
    /\ target = "x86_64-unknown-linux-gnu"
    /\ "AR_x86_64-unknown-linux-gnu" \notin DOMAIN env
    /\ "AR_x86_64_unknown_linux_gnu" \in DOMAIN env
    /\ env["AR_x86_64_unknown_linux_gnu"] = ""
    /\ "AR" \in DOMAIN env
    /\ env["AR"] = "/custom/AR"
    /\ get_var(host, target, "AR") = Some("")

C4_AndroidArchiver ==
    (pc = "built" /\ ArOverride(host, target) = None)
        => /\ target = "armv7-linux-androideabi" => ar = "arm-linux-androideabi-ar"
           /\ target = "aarch64-linux-android" => ar = "aarch64-linux-android-ar"

C4_Witness ==
    /\ pc = "built"
    /\ target = "armv7-linux-androideabi"
    /\ "CROSS_COMPILE" \in DOMAIN env
    /\ "PATH" \in DOMAIN env
    /\ ArOverride(host, target) = None
    /\ ar = "arm-linux-androideabi-ar"

(***************************************************************************)
(* C5: with no AR-cascade variable set and a target outside the four       *)
(* special cases, the archiver is "<prefix>-ar" exactly when host differs  *)
(* from target, prefix_for_target gives a prefix and the probe of          *)
(* "<prefix>-ar" succeeds; otherwise it is "ar".                           *)
(***************************************************************************)
C5_CrossPrefixOrAr ==
    (pc = "built" /\ ArOverride(host, target) = None
                  /\ target \notin SpecialTargets)
        => LET q == prefix_for_target(target)
           IN  IF host # target /\ q # None /\ (unwrap(q) \o "-ar") \in invocable
               THEN ar = unwrap(q) \o "-ar"
               ELSE ar = "ar"

\* a cross build whose prefix comes from the PATH search and whose probe succeeds
C5_Witness ==
    /\ pc = "built"
    /\ host = "x86_64-pc-windows-msvc"
    /\ target = "i686-unknown-linux-gnu"
    /\ "CROSS_COMPILE" \notin DOMAIN env
    /\ ar = "x86_64-linux-gnu-ar"

(***************************************************************************)
(* C7: new() asks the detection collaborator twice, for C and for C++:     *)
(* cc answers the request with cpp off and cxx the request with cpp on.    *)
(***************************************************************************)
C7_CxxFromCppRequest ==
    pc = "built"
        => /\ requests = <<Build(host, target, FALSE), Build(host, target, TRUE)>>
           /\ cc = get_compiler(Build(host, target, FALSE))
           /\ cxx = get_compiler(Build(host, target, TRUE))

(***************************************************************************)
(* C6: when CROSS_COMPILE is set, prefix_for_target returns its value      *)
(* without the trailing hyphens for every target, listed in the table or   *)
(* not, and whatever PATH holds.  When it is unset the table decides, and  *)
(* a target the table does not list gets None.                             *)
(***************************************************************************)
\* the values CROSS_COMPILE is drawn from, with their trailing hyphens removed
Trimmed(v) ==
    CASE v = "arm-linux-gnueabi-" -> "arm-linux-gnueabi"
      [] v = "musl" -> "musl"
      [] v = "--" -> ""

C6_CrossCompileOverridesTable ==
    call[1] = "prefix_for_target"
        => IF "CROSS_COMPILE" \in DOMAIN env
           THEN call[3] = Some(Trimmed(env["CROSS_COMPILE"]))
           ELSE /\ call[3] = prefix_table(call[2])
                /\ call[2] \in UnlistedTargets => call[3] = None

\* CROSS_COMPILE wins for a target whose table entry searches PATH and finds a gcc
C6_Witness ==
    /\ call[1] = "prefix_for_target"
    /\ call[2] = "i686-unknown-linux-gnu"
    /\ "CROSS_COMPILE" \in DOMAIN env
    /\ env["CROSS_COMPILE"] = "--"
    /\ prefix_table(call[2]) = Some("x86_64-linux-gnu")
    /\ call[3] = Some("")

(***************************************************************************)
(* C8: ar is never the empty string, right after new() and after any       *)
(* setter calls.                                                           *)
(***************************************************************************)
C8_ArNeverEmpty == pc = "built" => get_ar # ""

(***************************************************************************)
(* C8, amended: new() leaves ar empty exactly when the winning AR-cascade  *)
(* variable is set to the empty string; with no such variable set ar is    *)
(* non-empty, "ar" at least.  Afterwards ar changes only by its setter,    *)
(* which stores its argument verbatim, the empty path included.            *)
(***************************************************************************)
C8_ArEmptyOnlyVerbatim ==
    [][ /\ (pc = "start" /\ pc' = "built")
            => (ar' = "" <=> ArOverride(host', target') = Some(""))
        /\ (pc = "built" /\ ar' # ar) => \E v \in Paths : Ar(v) /\ get_ar' = v
      ]_vars

\* no override, an empty prefix from CROSS_COMPILE, and the fallback "ar"
C8_Witness ==
    /\ pc = "built"
    /\ host # target
    /\ target = "x86_64-apple-darwin"
    /\ "AR" \notin DOMAIN env
    /\ "CROSS_COMPILE" \in DOMAIN env
    /\ env["CROSS_COMPILE"] = "--"
    /\ ar = "ar"

(***************************************************************************)
(* C9: once built, target and host never change; new() leaves sysroot      *)
(* absent and ranlib "ranlib"; each setter puts its argument in the field  *)
(* it names, read back by the getter, and every step changes at most one   *)
(* of the five settable fields, by that field's setter.                    *)
(***************************************************************************)
C9_SettersFrame ==
    [][ /\ pc = "built" => (target' = target /\ host' = host /\ pc' = "built")
        /\ \A t \in Targets : New(t)
              => /\ target' = t /\ host' = rustc_host
                 /\ get_sysroot' = None /\ get_ranlib' = "ranlib"
        /\ pc = "built" =>
              /\ sysroot' # sysroot =>
                    /\ \E v \in Paths : Sysroot(v) /\ get_sysroot' = Some(v)
                    /\ UNCHANGED <<cc, cxx, ar, ranlib>>
              /\ cc' # cc =>
                    /\ \E v \in Paths : Cc(v) /\ get_cc' = v
                    /\ UNCHANGED <<sysroot, cxx, ar, ranlib>>
              /\ cxx' # cxx =>
                    /\ \E v \in Paths : Cxx(v) /\ get_cxx' = v
                    /\ UNCHANGED <<sysroot, cc, ar, ranlib>>
              /\ ar' # ar =>
                    /\ \E v \in Paths : Ar(v) /\ get_ar' = v
                    /\ UNCHANGED <<sysroot, cc, cxx, ranlib>>
              /\ ranlib' # ranlib =>
                    /\ \E v \in Paths : Ranlib(v) /\ get_ranlib' = v
                    /\ UNCHANGED <<sysroot, cc, cxx, ar>>
      ]_vars

\* all five setters have been called on a toolchain for an android target
C9_Witness ==
    /\ pc = "built"
    /\ target = "armv7-linux-androideabi"
    /\ host = rustc_host
    /\ get_sysroot = Some("/opt/llvm/bin/tool")
    /\ get_cc = ""
    /\ get_cxx = "/opt/llvm/bin/tool"
    /\ get_ar = "/opt/llvm/bin/tool"
    /\ get_ranlib = ""

(***************************************************************************)
(* C10: find_working_gnu_prefix on a non-empty list returns the candidate  *)
(* found in the earliest PATH entry that holds "<prefix>-gcc<exe suffix>"  *)
(* for any candidate, the earliest-listed one within that entry; when no   *)
(* entry holds one, or PATH is unset, the first candidate.  It never       *)
(* returns None nor a name outside the list.                               *)
(***************************************************************************)
\* <<entry index, candidate index>> of every gcc that exists on PATH
GccHits(prefixes) ==
    IF "PATH" \notin DOMAIN env THEN {}
    ELSE LET entries == split_paths(env["PATH"])
         IN  {h \in (DOMAIN entries) \X (DOMAIN prefixes) :
                 join(entries[h[1]], prefixes[h[2]] \o "-gcc" \o EXE_SUFFIX) \in fs}

\* the hit that is first in PATH order, then in candidate order
EarliestHit(hits) ==
    CHOOSE h \in hits :
        \A g \in hits : h[1] < g[1] \/ (h[1] = g[1] /\ h[2] <= g[2])

====
